---- MODULE Spec2Model ----
(***************************************************************************)
(* FuelWise: the App state (FuelData, ValidationErrors), the field-update  *)
(* path (handleUpdate / validate / applyProvincialPrice) and one           *)
(* SmartNumberInput with its press-and-hold stepper (startAdjusting /      *)
(* stopAdjusting and the two window timers).                               *)
(*                                                                         *)
(* Numbers are exact decimals held as integers in units of 1/10000, so     *)
(* that toFixed(3) is a real rounding.  Text is a sequence of              *)
(* one-character strings.  Time is in milliseconds since the last          *)
(* press-start; a timer fires exactly when it is due.                      *)
(***************************************************************************)
EXTENDS Integers, Sequences, FiniteSets, TLC

VARIABLES
    data,             \* App: useState<FuelData>, latest state
    errors,           \* App: useState<ValidationErrors>, latest state ("" = no entry)
    rendered,         \* `data` as captured by the closures of the last committed render
    pending,          \* timer callbacks whose state updates are not yet rendered
    mounted,          \* the App (and with it the SmartNumberInput) is mounted
    ctl,              \* the FuelData field the modelled SmartNumberInput is bound to
    inputValue,       \* SmartNumberInput: useState text of the input
    valueRef,         \* SmartNumberInput: valueRef.current
    timerRef,         \* SmartNumberInput: timerRef.current
    initialDelayRef,  \* SmartNumberInput: initialDelayRef.current
    timers,           \* window timers that are scheduled and not yet fired or cleared
    now,              \* ms since the last press-start (0 while no timer is pending)
    held,             \* a pointerdown was handled and no pointerup/pointerleave since
    emitted,          \* deltas reported to the owner by the current/last press
    lastEmit,         \* the last performUpdate call: base, delta, value, owner value
    ctxAt,            \* `emitted` at the context-menu event of this press, -1 if none
    lastEdit,         \* field of the last handleUpdate call ("none" after other writes)
    restarted,        \* the press in progress began while a timer was pending
    presses,          \* pointerdown events so far
    edits,            \* typed edits and price-apply events so far
    aiAdvice,         \* App: useState aiAdvice
    loadingAi,        \* App: useState loadingAi
    provincialData,   \* App: useState provincialData, as a record with a `loaded` flag
    loadingProvince,  \* App: useState loadingProvince
    locationError,    \* App: useState locationError
    isProvincialCollapsed, \* App: useState isProvincialCollapsed
    aiPending,        \* generateContent calls of fetchAiAdvice awaiting their outcome
    geo,              \* fetchProvincialPrices calls in flight, each "locating" or "lookup"
    requests,         \* calls of fetchAiAdvice and fetchProvincialPrices so far
    input,            \* the arguments of the pure function under study
    result            \* its return value, once it was called

\* the state of the collaborator calls
collab == <<aiAdvice, loadingAi, provincialData, loadingProvince, locationError,
            isProvincialCollapsed, aiPending, geo, requests>>

\* the pure function under study
probe == <<input, result>>

\* the SmartNumberInput and the bookkeeping of its events
widget == <<rendered, pending, mounted, ctl, inputValue, valueRef, timerRef,
            initialDelayRef, timers, now, held, emitted, lastEmit, ctxAt, lastEdit,
            restarted, presses, edits>>

vars == <<data, errors, rendered, pending, mounted, ctl, inputValue, valueRef,
          timerRef, initialDelayRef, timers, now, held, emitted, lastEmit,
          ctxAt, lastEdit, restarted, presses, edits, collab, probe>>

----------------------------------------------------------------------------
(* Bounds of the model *)

MaxPresses == 2
MaxEdits == 1
MaxUnrendered == 2
MaxHold == 480
MaxTime == 2040
TickMs == 20

----------------------------------------------------------------------------
(* Numbers and text *)

Scale == 10 * 1000
Milli == Scale \div 1000

NaN == -999999999
IsNaN(v) == v = NaN

Null == 0

Min(a, b) == IF a <= b THEN a ELSE b
Max(a, b) == IF a >= b THEN a ELSE b

Digits == {"0", "1", "2", "3", "4", "5", "6", "7", "8", "9"}

DigitVal(c) ==
    CASE c = "0" -> 0 [] c = "1" -> 1 [] c = "2" -> 2 [] c = "3" -> 3
      [] c = "4" -> 4 [] c = "5" -> 5 [] c = "6" -> 6 [] c = "7" -> 7
      [] c = "8" -> 8 [] c = "9" -> 9

DigitChar(d) ==
    CASE d = 0 -> "0" [] d = 1 -> "1" [] d = 2 -> "2" [] d = 3 -> "3"
      [] d = 4 -> "4" [] d = 5 -> "5" [] d = 6 -> "6" [] d = 7 -> "7"
      [] d = 8 -> "8" [] d = 9 -> "9"

\* number of consecutive digits of s starting at index i
RECURSIVE DigitRun(_, _)
DigitRun(s, i) ==
    IF i <= Len(s) /\ s[i] \in Digits THEN 1 + DigitRun(s, i + 1) ELSE 0

\* value of the n digits of s starting at index i
RECURSIVE DigitsValue(_, _, _)
DigitsValue(s, i, n) ==
    IF n = 0 THEN 0
    ELSE 10 * DigitsValue(s, i, n - 1) + DigitVal(s[i + n - 1])

\* the first four fractional digits starting at index i, as units of 1/10000
RECURSIVE FractionUnits(_, _, _, _)
FractionUnits(s, i, n, weight) ==
    IF n = 0 \/ weight = 0 THEN 0
    ELSE DigitVal(s[i]) * weight + FractionUnits(s, i + 1, n - 1, weight \div 10)

\* String.prototype.replace(a, b) with a string pattern: the first occurrence only
RECURSIVE ReplaceFirst(_, _, _)
ReplaceFirst(s, a, b) ==
    IF s = <<>> THEN <<>>
    ELSE IF Head(s) = a THEN <<b>> \o Tail(s)
    ELSE <<Head(s)>> \o ReplaceFirst(Tail(s), a, b)

\* parseFloat: optional sign, digits, optional "." and digits; the longest such
\* prefix; NaN when the prefix holds no digit
ParseFloat(s) ==
    LET signed == Len(s) >= 1 /\ s[1] \in {"-", "+"}
        start  == IF signed THEN 2 ELSE 1
        nInt   == DigitRun(s, start)
        dotAt  == start + nInt
        hasDot == dotAt <= Len(s) /\ s[dotAt] = "."
        nFrac  == IF hasDot THEN DigitRun(s, dotAt + 1) ELSE 0
        mag    == DigitsValue(s, start, nInt) * Scale
                  + FractionUnits(s, dotAt + 1, nFrac, Scale \div 10)
    IN  IF nInt = 0 /\ nFrac = 0 THEN NaN
        ELSE IF signed /\ s[1] = "-" THEN 0 - mag ELSE mag

RECURSIVE NatToText(_)
NatToText(n) ==
    IF n < 10 THEN <<DigitChar(n)>>
    ELSE NatToText(n \div 10) \o <<DigitChar(n % 10)>>

\* the fractional digits of `units` out of `weight * 10`, without trailing zeros
RECURSIVE FractionText(_, _)
FractionText(units, weight) ==
    IF units = 0 \/ weight = 0 THEN <<>>
    ELSE <<DigitChar(units \div weight)>> \o FractionText(units % weight, weight \div 10)

\* Number.prototype.toString of a decimal with at most four fractional digits
NumberToString(v) ==
    LET mag  == IF v < 0 THEN 0 - v ELSE v
        frac == FractionText(mag % Scale, Scale \div 10)
    IN  (IF v < 0 THEN <<"-">> ELSE <<>>)
        \o NatToText(mag \div Scale)
        \o (IF frac = <<>> THEN <<>> ELSE <<".">> \o frac)

\* value.toString().replace('.', ',')
FormatValue(v) == ReplaceFirst(NumberToString(v), ".", ",")

\* Number(x.toFixed(3)): to the nearest multiple of 0.001, halves away from zero
ToFixed3(x) ==
    IF x >= 0 THEN ((x + (Milli \div 2)) \div Milli) * Milli
    ELSE 0 - ((((0 - x) + (Milli \div 2)) \div Milli) * Milli)

\* /^-?[0-9]*[.,]?[0-9]*$/.test(s)
MatchesPattern(s) ==
    LET start == IF Len(s) >= 1 /\ s[1] = "-" THEN 2 ELSE 1
        sepAt == start + DigitRun(s, start)
        rest  == IF sepAt <= Len(s) /\ s[sepAt] \in {".", ","} THEN sepAt + 1 ELSE sepAt
    IN  rest + DigitRun(s, rest) = Len(s) + 1

----------------------------------------------------------------------------
(* FuelData, validation *)

Fields == {"priceOnRoad", "priceOffRoad", "litersToRefuel", "consumptionKmL"}

InitialData ==
    [priceOnRoad |-> 16990, priceOffRoad |-> 15990,
     litersToRefuel |-> 25 * Scale, consumptionKmL |-> 18 * Scale]

NoErrors == [f \in Fields |-> ""]

\* the `step` prop of each SmartNumberInput
StepOf(f) ==
    CASE f = "priceOnRoad"    -> Milli
      [] f = "priceOffRoad"   -> Milli
      [] f = "litersToRefuel" -> Scale
      [] f = "consumptionKmL" -> Scale \div 2

ErrInvalid == "Valore non valido"
ErrPositive == "Deve essere > 0"
ErrLower == "Deve essere inferiore al prezzo A"

\* validate whose cross-field rule compares with > instead of >=
Validate_StrictlyGreater(field, value, cdata) ==
    LET first == IF IsNaN(value) THEN ErrInvalid
                 ELSE IF value <= 0 THEN ErrPositive
                 ELSE ""
    IN  IF field = "priceOffRoad" /\ ~IsNaN(value)
           /\ value > cdata.priceOnRoad /\ value > 0
        THEN ErrLower
        ELSE first

\* validate(field, value) inside a render whose `data` is cdata: the message
Validate(field, value, cdata) ==
    LET first == IF IsNaN(value) THEN ErrInvalid
                 ELSE IF value <= 0 THEN ErrPositive
                 ELSE ""
    IN  IF field = "priceOffRoad" /\ ~IsNaN(value)
           /\ value >= cdata.priceOnRoad /\ value > 0
        THEN ErrLower
        ELSE first

HasErrors(errs) == \E f \in Fields : errs[f] # ""

\* handleUpdate(field, val) inside a render whose `data` is cdata: the errors
HandleUpdateErrors(errs, field, val, cdata) ==
    LET e1 == [errs EXCEPT ![field] = Validate(field, val, cdata)]
    IN  IF field = "priceOnRoad"
        THEN [e1 EXCEPT !["priceOffRoad"] =
                 Validate("priceOffRoad", cdata.priceOffRoad, cdata)]
        ELSE e1

\* handleUpdate(field, val): the state updates, which React drops once unmounted
HandleUpdate(field, val, cdata) ==
    /\ data' = IF mounted THEN [data EXCEPT ![field] = val] ELSE data
    /\ errors' = IF mounted THEN HandleUpdateErrors(errors, field, val, cdata) ELSE errors
    /\ lastEdit' = IF mounted THEN field ELSE lastEdit

\* React commits a render of every queued update and runs the value effect of
\* SmartNumberInput, whose text state is `text` in that render.  React does so
\* for the updates of an input event before it dispatches the next event; the
\* updates of a timer callback are rendered in a later task (Render).
Commit(text) ==
    /\ rendered' = data'
    /\ pending' = 0
    /\ IF data'[ctl] # rendered[ctl]
       THEN /\ valueRef' = data'[ctl]
            /\ inputValue' =
                 IF ParseFloat(ReplaceFirst(text, ",", ".")) # data'[ctl]
                 THEN FormatValue(data'[ctl])
                 ELSE text
       ELSE /\ valueRef' = valueRef
            /\ inputValue' = text


----------------------------------------------------------------------------
(* applyProvincialPrice *)

PriceChars == Digits \cup {",", "."}

\* priceStr.replace(/[^0-9,.]/g, '').replace(',', '.').trim()
CleanPrice(priceStr) ==
    ReplaceFirst(SelectSeq(priceStr, LAMBDA c : c \in PriceChars), ",", ".")

PriceStrings ==
    { <<"1", ".", "7", "9", "9", " ", "E", "/", "L">>,
      <<"1", ",", "5">>,
      <<"N", "/", "D">>,
      <<"n", ".", "d", ".">>,
      <<"-", ",", " ", "E", "/", "L">> }

\* applyProvincialPrice that overwrites priceOnRoad only
ApplyProvincialPrice_OnRoadOnly(priceStr) ==
    LET num == ParseFloat(CleanPrice(priceStr))
    IN  /\ mounted
        /\ edits < MaxEdits
        /\ edits' = edits + 1
        /\ IF ~IsNaN(num)
           THEN /\ data' = [data EXCEPT !["priceOnRoad"] = num]
                /\ errors' = [errors EXCEPT !["priceOnRoad"] = "", !["priceOffRoad"] = ""]
                /\ lastEdit' = "none"
                /\ Commit(inputValue)
           ELSE UNCHANGED <<data, errors, lastEdit, rendered, pending, valueRef,
                            inputValue>>
        /\ UNCHANGED <<mounted, ctl, timerRef, initialDelayRef, timers, now, held,
                       emitted, lastEmit, ctxAt, restarted, presses>>
        /\ UNCHANGED <<collab, probe>>

\* applyProvincialPrice that applies 0 when no number parses
ApplyProvincialPrice_ZeroFallback(priceStr) ==
    LET parsed == ParseFloat(CleanPrice(priceStr))
        num    == IF IsNaN(parsed) THEN 0 ELSE parsed
    IN  /\ mounted
        /\ edits < MaxEdits
        /\ edits' = edits + 1
        /\ data' = [data EXCEPT !["priceOnRoad"] = num, !["priceOffRoad"] = num]
        /\ errors' = [errors EXCEPT !["priceOnRoad"] = "", !["priceOffRoad"] = ""]
        /\ lastEdit' = "none"
        /\ Commit(inputValue)
        /\ UNCHANGED <<mounted, ctl, timerRef, initialDelayRef, timers, now, held,
                       emitted, lastEmit, ctxAt, restarted, presses>>
        /\ UNCHANGED <<collab, probe>>

\* applyProvincialPrice(priceStr)
ApplyProvincialPrice(priceStr) ==
    LET num == ParseFloat(CleanPrice(priceStr))
    IN  /\ mounted
        /\ edits < MaxEdits
        /\ edits' = edits + 1
        /\ IF ~IsNaN(num)
           THEN /\ data' = [data EXCEPT !["priceOnRoad"] = num, !["priceOffRoad"] = num]
                /\ errors' = [errors EXCEPT !["priceOnRoad"] = "", !["priceOffRoad"] = ""]
                /\ lastEdit' = "none"
                /\ Commit(inputValue)
           ELSE UNCHANGED <<data, errors, lastEdit, rendered, pending, valueRef,
                            inputValue>>
        /\ UNCHANGED <<mounted, ctl, timerRef, initialDelayRef, timers, now, held,
                       emitted, lastEmit, ctxAt, restarted, presses>>
        /\ UNCHANGED <<collab, probe>>

----------------------------------------------------------------------------
(* SmartNumberInput: text input *)

Texts ==
    { <<>>,
      <<"1", ",", "5">>,
      <<"0", ",", "0", "0", "0", "4">>,
      <<"1", "x">> }

\* values another SmartNumberInput reports for its own field
OtherValues == {15 * 1000, 2 * Scale}

\* handleInputChange(e) with e.target.value = original
HandleInputChange(original) ==
    LET normalized == ReplaceFirst(original, ",", ".")
        parsed     == ParseFloat(normalized)
    IN  /\ mounted
        /\ edits < MaxEdits
        /\ edits' = edits + 1
        /\ IF MatchesPattern(original)
           THEN IF ~IsNaN(parsed)
                THEN HandleUpdate(ctl, parsed, rendered) /\ Commit(original)
                ELSE IF normalized \in {<<>>, <<"-">>, <<".">>}
                THEN HandleUpdate(ctl, 0, rendered) /\ Commit(original)
                ELSE /\ inputValue' = original
                     /\ UNCHANGED <<data, errors, lastEdit, rendered, pending,
                                     valueRef>>
           ELSE UNCHANGED <<inputValue, data, errors, lastEdit, rendered, pending,
                            valueRef>>
        /\ UNCHANGED <<mounted, ctl, timerRef, initialDelayRef, timers, now, held,
                       emitted, lastEmit, ctxAt, restarted, presses>>
        /\ UNCHANGED <<collab, probe>>

\* onBlur of the text input
OnBlur ==
    /\ mounted
    /\ inputValue' = FormatValue(rendered[ctl])
    /\ UNCHANGED <<data, errors, rendered, pending, mounted, ctl, valueRef, timerRef,
                   initialDelayRef, timers, now, held, emitted, lastEmit, ctxAt,
                   lastEdit, restarted, presses, edits>>
    /\ UNCHANGED <<collab, probe>>

\* the onChange prop of one of the other three SmartNumberInputs
OnChangeOther(field, val) ==
    /\ mounted
    /\ field # ctl
    /\ edits < MaxEdits
    /\ edits' = edits + 1
    /\ HandleUpdate(field, val, rendered)
    /\ Commit(inputValue)
    /\ UNCHANGED <<mounted, ctl, timerRef, initialDelayRef, timers, now, held,
                   emitted, lastEmit, ctxAt, restarted, presses>>
    /\ UNCHANGED <<collab, probe>>

\* React renders the updates queued by timer callbacks
Render ==
    /\ mounted
    /\ pending > 0
    /\ UNCHANGED <<data, errors>>
    /\ Commit(inputValue)
    /\ UNCHANGED <<mounted, ctl, timerRef, initialDelayRef, timers, now, held,
                   emitted, lastEmit, ctxAt, lastEdit, restarted, presses, edits>>
    /\ UNCHANGED <<collab, probe>>

\* the App is unmounted; SmartNumberInput registers no cleanup
Unmount ==
    /\ mounted
    /\ mounted' = FALSE
    /\ UNCHANGED <<data, errors, rendered, pending, ctl, inputValue, valueRef,
                   timerRef, initialDelayRef, timers, now, held, emitted, lastEmit,
                   ctxAt, lastEdit, restarted, presses, edits>>
    /\ UNCHANGED <<collab, probe>>


----------------------------------------------------------------------------
(* SmartNumberInput: press-and-hold stepper *)

InitialDelayMs == 400
BaseSpeed == 80
FastSpeed == 40
FastestSpeed == 15
FastAfter == 10
FastestAfter == 30

\* clearTimeout(id), guarded by `if (ref.current)`: no timer has the handle Null
ClearTimeout(ts, id) == {t \in ts : t.id # id}

\* stopAdjusting that forgets the 400 ms timer
StopAdjustingTimers_RepeatOnly(ts) == ClearTimeout(ts, timerRef)

\* stopAdjusting that nulls the handles without clearing their timers
StopAdjustingTimers_HandlesOnly(ts) == ts

\* stopAdjusting: the timers left pending
StopAdjustingTimers(ts) == ClearTimeout(ClearTimeout(ts, timerRef), initialDelayRef)

\* the handle window.setTimeout returns: one that names no pending timer and
\* that neither ref still holds
FreshId(ts, refs) ==
    CHOOSE i \in 1..(Cardinality(ts) + Cardinality(refs) + 1) :
        /\ i \notin refs
        /\ \A t \in ts : t.id # i
        /\ \A j \in 1..(i - 1) : j \in refs \/ \E t \in ts : t.id = j

\* performUpdate without the floor at 0
NextVal_NoFloor(base, d) == ToFixed3(base + d)

\* performUpdate(d): the value reported to onChange
NextVal(base, d) == Max(0, ToFixed3(base + d))

\* the timers as seen from a clock restarted at `origin`
Rebase(ts, origin) == {[t EXCEPT !.due = t.due - origin] : t \in ts}

\* startAdjusting(delta)
StartAdjusting(delta) ==
    LET left    == Rebase(StopAdjustingTimers(timers), now)
        nextVal == NextVal(valueRef, delta)
        id      == FreshId(left, {})
    IN  /\ HandleUpdate(ctl, nextVal, rendered)
        /\ lastEmit' = [base |-> valueRef, delta |-> delta, value |-> nextVal,
                        owner |-> data[ctl]]
        /\ emitted' = 1
        /\ timerRef' = Null
        /\ initialDelayRef' = id
        /\ timers' = left \cup
              {[id |-> id, kind |-> "initial", due |-> InitialDelayMs,
                delay |-> InitialDelayMs, delta |-> delta, count |-> 0,
                cdata |-> rendered]}
        /\ now' = 0

\* onPointerDown of the plus (sign = 1) or minus (sign = -1) button
PointerDown(sign) ==
    /\ mounted
    /\ presses < MaxPresses
    /\ presses' = presses + 1
    /\ StartAdjusting(sign * StepOf(ctl))
    /\ Commit(inputValue)
    /\ held' = TRUE
    /\ ctxAt' = -1
    /\ restarted' = (timers # {})
    /\ UNCHANGED <<mounted, ctl, edits>>
    /\ UNCHANGED <<collab, probe>>

\* stopAdjusting()
StopAdjusting ==
    /\ timers' = StopAdjustingTimers(timers)
    /\ timerRef' = Null
    /\ initialDelayRef' = Null
    /\ now' = IF timers' = {} THEN 0 ELSE now

\* onPointerUp of either button
PointerUp ==
    /\ mounted
    /\ StopAdjusting
    /\ held' = FALSE
    /\ ctxAt' = -1
    /\ restarted' = FALSE
    /\ UNCHANGED <<data, errors, rendered, pending, mounted, ctl, inputValue,
                   valueRef, emitted, lastEmit, lastEdit, presses, edits>>
    /\ UNCHANGED <<collab, probe>>

\* onPointerLeave of either button
PointerLeave ==
    /\ mounted
    /\ StopAdjusting
    /\ held' = FALSE
    /\ ctxAt' = -1
    /\ restarted' = FALSE
    /\ UNCHANGED <<data, errors, rendered, pending, mounted, ctl, inputValue,
                   valueRef, emitted, lastEmit, lastEdit, presses, edits>>
    /\ UNCHANGED <<collab, probe>>

\* onContextMenu that also calls stopAdjusting
ContextMenu_Stops ==
    /\ mounted
    /\ held
    /\ ctxAt = -1
    /\ ctxAt' = emitted
    /\ StopAdjusting
    /\ UNCHANGED <<data, errors, rendered, pending, mounted, ctl, inputValue,
                   valueRef, held, emitted, lastEmit, lastEdit, restarted, presses,
                   edits>>
    /\ UNCHANGED <<collab, probe>>

\* onContextMenu of either button: e.preventDefault() and nothing else
ContextMenu ==
    /\ mounted
    /\ held
    /\ ctxAt = -1
    /\ ctxAt' = emitted
    /\ UNCHANGED <<data, errors, rendered, pending, mounted, ctl, inputValue,
                   valueRef, timerRef, initialDelayRef, timers, now, held, emitted,
                   lastEmit, lastEdit, restarted, presses, edits>>
    /\ UNCHANGED <<collab, probe>>

\* the callback of the 400 ms timer
InitialDelayFire(t) ==
    LET left == timers \ {t}
        id   == FreshId(left, {timerRef, initialDelayRef})
    IN  /\ t.kind = "initial"
        /\ t.due <= now
        /\ timerRef' = id
        /\ timers' = left \cup
              {[id |-> id, kind |-> "run", due |-> now + BaseSpeed,
                delay |-> BaseSpeed, delta |-> t.delta, count |-> 0,
                cdata |-> t.cdata]}
        /\ UNCHANGED <<data, errors, rendered, pending, mounted, ctl, inputValue,
                       valueRef, initialDelayRef, now, held, emitted, lastEmit,
                       ctxAt, lastEdit, restarted, presses, edits>>
        /\ UNCHANGED <<collab, probe>>

\* run that starts at the fast interval
NextSpeed_FastAtOnce(speed, count) == FastSpeed

\* run without the second acceleration step
NextSpeed_OneStep(speed, count) ==
    IF count = FastAfter THEN FastSpeed ELSE speed

\* the delay `run` passes to setTimeout once `count` repeats were emitted
NextSpeed(speed, count) ==
    LET s1 == IF count = FastAfter THEN FastSpeed ELSE speed
    IN  IF count = FastestAfter THEN FastestSpeed ELSE s1

\* run() that stops rescheduling itself once the fastest interval is reached
RunFire_StopsAtFastest(t) ==
    LET left    == timers \ {t}
        id      == FreshId(left, {timerRef, initialDelayRef})
        nextVal == NextVal(valueRef, t.delta)
        count   == t.count + 1
        speed   == NextSpeed(t.delay, count)
    IN  /\ t.kind = "run"
        /\ t.due <= now
        /\ ~mounted \/ pending < MaxUnrendered
        /\ HandleUpdate(ctl, nextVal, t.cdata)
        /\ pending' = IF mounted THEN pending + 1 ELSE pending
        /\ lastEmit' = [base |-> valueRef, delta |-> t.delta, value |-> nextVal,
                        owner |-> data[ctl]]
        /\ emitted' = emitted + 1
        /\ timerRef' = id
        /\ timers' = IF count >= FastestAfter THEN left
                     ELSE left \cup
                            {[id |-> id, kind |-> "run", due |-> now + speed,
                              delay |-> speed, delta |-> t.delta, count |-> count,
                              cdata |-> t.cdata]}
        /\ UNCHANGED <<rendered, mounted, ctl, inputValue, valueRef,
                       initialDelayRef, now, held, ctxAt, restarted, presses, edits>>
        /\ UNCHANGED <<collab, probe>>

\* run(): one repeat
RunFire(t) ==
    LET left    == timers \ {t}
        id      == FreshId(left, {timerRef, initialDelayRef})
        nextVal == NextVal(valueRef, t.delta)
        count   == t.count + 1
        speed   == NextSpeed(t.delay, count)
    IN  /\ t.kind = "run"
        /\ t.due <= now
        /\ ~mounted \/ pending < MaxUnrendered
        /\ HandleUpdate(ctl, nextVal, t.cdata)
        /\ pending' = IF mounted THEN pending + 1 ELSE pending
        /\ lastEmit' = [base |-> valueRef, delta |-> t.delta, value |-> nextVal,
                        owner |-> data[ctl]]
        /\ emitted' = emitted + 1
        /\ timerRef' = id
        /\ timers' = left \cup
              {[id |-> id, kind |-> "run", due |-> now + speed, delay |-> speed,
                delta |-> t.delta, count |-> count, cdata |-> t.cdata]}
        /\ UNCHANGED <<rendered, mounted, ctl, inputValue, valueRef,
                       initialDelayRef, now, held, ctxAt, restarted, presses, edits>>
        /\ UNCHANGED <<collab, probe>>

\* the earliest due time of a non-empty set of timers
MinDue(ts) == CHOOSE d \in {t.due : t \in ts} : \A t \in ts : d <= t.due

\* the clock jumps to the next due timer
WaitForTimer ==
    /\ timers # {}
    /\ \A t \in timers : t.due > now
    /\ MinDue(timers) <= MaxHold
    /\ now' = MinDue(timers)
    /\ UNCHANGED <<data, errors, rendered, pending, mounted, ctl, inputValue,
                   valueRef, timerRef, initialDelayRef, timers, held, emitted,
                   lastEmit, ctxAt, lastEdit, restarted, presses, edits>>
    /\ UNCHANGED <<collab, probe>>

\* the clock advances by one tick, and never past a due timer
Tick ==
    /\ timers # {}
    /\ \A t \in timers : t.due > now
    /\ now < MaxTime
    /\ now' = Min(Min(now + TickMs, MinDue(timers)), MaxTime)
    /\ UNCHANGED <<data, errors, rendered, pending, mounted, ctl, inputValue,
                   valueRef, timerRef, initialDelayRef, timers, held, emitted,
                   lastEmit, ctxAt, lastEdit, restarted, presses, edits>>
    /\ UNCHANGED <<collab, probe>>

----------------------------------------------------------------------------
(* The collaborators: advisory text, geolocation, province prices *)

\* Advisory text is a sequence of pieces of text, <<>> the empty string.  A
\* call of fetchProvincialPrices in flight is "locating" while
\* getCurrentPosition runs and "lookup" while generateContent runs.

\* provincialData === null
NoProvincialData == [loaded |-> FALSE]

MaxRequests == 2

ErrUnsupported == "Geolocalizzazione non supportata."
ErrLookup == "Impossibile recuperare i prezzi provinciali accurati da AlVolante."
ErrDenied == "Permesso negato."
ErrTimeout == "Timeout rilevamento."
ErrGps == "Errore GPS."

NoAdvice == <<"Nessun consiglio disponibile.">>
ErrAdvice == <<"Errore nel recupero del consiglio AI.">>

\* response.text of the advisory call
AdviceResponses == {<<>>, <<"*", "*">>, <<"Fino a ", "*", "10", "*", " km">>}

\* (response.text || "").replace(/\*/g, "")
CleanAdvice(text) == SelectSeq(text, LAMBDA piece : piece # "*")

\* err.code of a GeolocationPositionError
GeoErrorCodes == {1, 2, 3}

\* the object parsed from a lookup response that holds one
LookupResponses ==
    {[province |-> "Milano", prices |-> <<"1.799 E/L", "1,5">>],
     [province |-> "Roma", prices |-> <<"N/D">>]}

RemoveAt(seq, i) == SubSeq(seq, 1, i - 1) \o SubSeq(seq, i + 1, Len(seq))

\* fetchProvincialPrices(), with navigator.geolocation present or not
FetchProvincialPrices(supported) ==
    /\ mounted
    /\ requests < MaxRequests
    /\ requests' = requests + 1
    /\ isProvincialCollapsed' = FALSE
    /\ IF supported
       THEN /\ loadingProvince' = TRUE
            /\ locationError' = ""
            /\ geo' = Append(geo, "locating")
       ELSE /\ loadingProvince' = FALSE
            /\ locationError' = ErrUnsupported
            /\ geo' = geo
    /\ UNCHANGED <<aiAdvice, loadingAi, provincialData, aiPending>>
    /\ UNCHANGED <<data, errors, widget, probe>>

\* the success callback of getCurrentPosition, up to its await
PositionArrives(i) ==
    /\ mounted
    /\ geo[i] = "locating"
    /\ geo' = [geo EXCEPT ![i] = "lookup"]
    /\ UNCHANGED <<aiAdvice, loadingAi, provincialData, loadingProvince, locationError,
                   isProvincialCollapsed, aiPending, requests>>
    /\ UNCHANGED <<data, errors, widget, probe>>

\* the error callback of getCurrentPosition
GeoError(i, code) ==
    /\ mounted
    /\ geo[i] = "locating"
    /\ geo' = RemoveAt(geo, i)
    /\ loadingProvince' = FALSE
    /\ locationError' = IF code = 1 THEN ErrDenied
                        ELSE IF code = 3 THEN ErrTimeout
                        ELSE ErrGps
    /\ UNCHANGED <<aiAdvice, loadingAi, provincialData, isProvincialCollapsed,
                   aiPending, requests>>
    /\ UNCHANGED <<data, errors, widget, probe>>

\* a catch block that also resets the record
LookupFails_ResetsData(i) ==
    /\ mounted
    /\ geo[i] = "lookup"
    /\ geo' = RemoveAt(geo, i)
    /\ locationError' = ErrLookup
    /\ loadingProvince' = FALSE
    /\ data' = InitialData
    /\ UNCHANGED <<aiAdvice, loadingAi, provincialData, isProvincialCollapsed,
                   aiPending, requests>>
    /\ UNCHANGED <<errors, widget, probe>>

\* the rest of the success callback when generateContent rejects, the text
\* holds no {...}, or JSON.parse throws: catch and finally
LookupFails(i) ==
    /\ mounted
    /\ geo[i] = "lookup"
    /\ geo' = RemoveAt(geo, i)
    /\ locationError' = ErrLookup
    /\ loadingProvince' = FALSE
    /\ UNCHANGED <<aiAdvice, loadingAi, provincialData, isProvincialCollapsed,
                   aiPending, requests>>
    /\ UNCHANGED <<data, errors, widget, probe>>

\* the rest of the success callback when the response parses to `parsed`
LookupSucceeds(i, parsed) ==
    /\ mounted
    /\ geo[i] = "lookup"
    /\ geo' = RemoveAt(geo, i)
    /\ provincialData' = [loaded |-> TRUE, province |-> parsed.province,
                          prices |-> parsed.prices]
    /\ loadingProvince' = FALSE
    /\ UNCHANGED <<aiAdvice, loadingAi, locationError, isProvincialCollapsed,
                   aiPending, requests>>
    /\ UNCHANGED <<data, errors, widget, probe>>

\* the header of the provincial panel is clicked
ToggleProvincialCollapsed ==
    /\ mounted
    /\ isProvincialCollapsed' = ~isProvincialCollapsed
    /\ UNCHANGED <<aiAdvice, loadingAi, provincialData, loadingProvince, locationError,
                   aiPending, geo, requests>>
    /\ UNCHANGED <<data, errors, widget, probe>>

\* fetchAiAdvice without its first line
FetchAiAdvice_NoGuard ==
    /\ mounted
    /\ requests < MaxRequests
    /\ loadingAi' = TRUE
    /\ aiPending' = aiPending + 1
    /\ requests' = requests + 1
    /\ UNCHANGED <<aiAdvice, provincialData, loadingProvince, locationError,
                   isProvincialCollapsed, geo>>
    /\ UNCHANGED <<data, errors, widget, probe>>

\* fetchAiAdvice(), up to its await
FetchAiAdvice ==
    /\ mounted
    /\ requests < MaxRequests
    /\ IF HasErrors(errors)
       THEN UNCHANGED <<loadingAi, aiPending, requests>>
       ELSE /\ loadingAi' = TRUE
            /\ aiPending' = aiPending + 1
            /\ requests' = requests + 1
    /\ UNCHANGED <<aiAdvice, provincialData, loadingProvince, locationError,
                   isProvincialCollapsed, geo>>
    /\ UNCHANGED <<data, errors, widget, probe>>

\* the rest of fetchAiAdvice when generateContent resolves with response.text
AiAdviceArrives(text) ==
    /\ mounted
    /\ aiPending > 0
    /\ aiPending' = aiPending - 1
    /\ aiAdvice' = IF CleanAdvice(text) # <<>> THEN CleanAdvice(text) ELSE NoAdvice
    /\ loadingAi' = FALSE
    /\ UNCHANGED <<provincialData, loadingProvince, locationError,
                   isProvincialCollapsed, geo, requests>>
    /\ UNCHANGED <<data, errors, widget, probe>>

\* the rest of fetchAiAdvice when generateContent rejects
AiAdviceFails ==
    /\ mounted
    /\ aiPending > 0
    /\ aiPending' = aiPending - 1
    /\ aiAdvice' = ErrAdvice
    /\ loadingAi' = FALSE
    /\ UNCHANGED <<provincialData, loadingProvince, locationError,
                   isProvincialCollapsed, geo, requests>>
    /\ UNCHANGED <<data, errors, widget, probe>>

----------------------------------------------------------------------------
(* The system *)

\* the state after the first render, but for the event counters
Mounted ==
    /\ ctl \in Fields
    /\ data = InitialData
    /\ errors = NoErrors
    /\ rendered = InitialData
    /\ pending = 0
    /\ mounted = TRUE
    /\ inputValue = FormatValue(InitialData[ctl])
    /\ valueRef = InitialData[ctl]
    /\ timerRef = Null
    /\ initialDelayRef = Null
    /\ timers = {}
    /\ now = 0
    /\ held = FALSE
    /\ emitted = 0
    /\ lastEmit = [base |-> 0, delta |-> 0, value |-> 0, owner |-> 0]
    /\ ctxAt = -1
    /\ lastEdit = "none"
    /\ restarted = FALSE
    /\ aiAdvice = <<>>
    /\ loadingAi = FALSE
    /\ provincialData = NoProvincialData
    /\ loadingProvince = FALSE
    /\ locationError = ""
    /\ isProvincialCollapsed = FALSE
    /\ aiPending = 0
    /\ geo = <<>>
    /\ requests = 0

\* no pure function is under study
NoProbe ==
    /\ input = [fn |-> "none"]
    /\ result = [fn |-> "none"]

Init ==
    /\ Mounted
    /\ NoProbe
    /\ presses = 0
    /\ edits = 0

Next ==
    \/ \E sign \in {1, -1} : PointerDown(sign)
    \/ PointerUp
    \/ PointerLeave
    \/ ContextMenu
    \/ \E t \in timers : InitialDelayFire(t)
    \/ \E t \in timers : RunFire(t)
    \/ WaitForTimer
    \/ \E text \in Texts : HandleInputChange(text)
    \/ OnBlur
    \/ \E f \in Fields, v \in OtherValues : OnChangeOther(f, v)
    \/ \E s \in PriceStrings : ApplyProvincialPrice(s)
    \/ Render

Spec == Init /\ [][Next]_vars

\* the same events over a lifetime that ends: the App may be unmounted at any
\* point, also while a press is active
NextUnmount ==
    \/ Next
    \/ Unmount

SpecUnmount == Init /\ [][NextUnmount]_vars

\* one control pressed and held, observed tick by tick, with no other edit
NextHold ==
    \/ \E sign \in {1, -1} : PointerDown(sign)
    \/ PointerUp
    \/ PointerLeave
    \/ \E t \in timers : InitialDelayFire(t)
    \/ \E t \in timers : RunFire(t)
    \/ Tick
    \/ Render

\* the hold starts with the edits spent and one press left
InitHold ==
    /\ Mounted
    /\ NoProbe
    /\ presses = MaxPresses - 1
    /\ edits = MaxEdits

SpecHold == InitHold /\ [][NextHold]_vars

\* the hold of the stepper of one field
InitPress ==
    /\ InitHold
    /\ ctl = "priceOnRoad"

\* its plus button pressed and held, or released
NextPress ==
    \/ PointerDown(1)
    \/ PointerUp
    \/ PointerLeave
    \/ \E t \in timers : InitialDelayFire(t)
    \/ \E t \in timers : RunFire(t)
    \/ Tick
    \/ Render

\* the press with the browser running every due timer callback, React
\* rendering every queued update, and time passing
FairHold ==
    /\ InitPress
    /\ [][NextPress]_vars
    /\ WF_vars(Tick)
    /\ WF_vars(\E t \in timers : InitialDelayFire(t))
    /\ WF_vars(\E t \in timers : RunFire(t))
    /\ WF_vars(Render)

\* texts typed on the way to a number
IntermediateTexts == {<<"-">>, <<".">>, <<",">>, <<"-", ".">>, <<"-", ",">>}

\* the texts typed in the App: those of Texts, the intermediate ones, and
\* numbers that validate rejects for some field
AppTexts == Texts \cup IntermediateTexts \cup {<<"0">>, <<"2">>}

\* The fields of the App and its provincial panel: typed edits, the panel
\* folded and unfolded, and a price of the panel applied.
NextEdits ==
    \/ \E text \in AppTexts : HandleInputChange(text)
    \/ OnBlur
    \/ \E f \in Fields, v \in OtherValues : OnChangeOther(f, v)
    \/ ToggleProvincialCollapsed
    \/ \E s \in PriceStrings : ApplyProvincialPrice(s)

SpecEdits == Init /\ [][NextEdits]_vars

\* The App with typed edits and its collaborators, the stepper left alone.
NextApp ==
    \/ \E text \in AppTexts : HandleInputChange(text)
    \/ OnBlur
    \/ \E f \in Fields, v \in OtherValues : OnChangeOther(f, v)
    \/ \E s \in PriceStrings : ApplyProvincialPrice(s)
    \/ \E supported \in BOOLEAN : FetchProvincialPrices(supported)
    \/ \E i \in DOMAIN geo : PositionArrives(i)
    \/ \E i \in DOMAIN geo, code \in GeoErrorCodes : GeoError(i, code)
    \/ \E i \in DOMAIN geo : LookupFails(i)
    \/ \E i \in DOMAIN geo, parsed \in LookupResponses : LookupSucceeds(i, parsed)
    \/ ToggleProvincialCollapsed
    \/ FetchAiAdvice
    \/ \E text \in AdviceResponses : AiAdviceArrives(text)
    \/ AiAdviceFails

SpecApp == Init /\ [][NextApp]_vars

\* The provincial panel and the advice card as the user drives them: each
\* handler is reached through its button, and a button that is disabled or not
\* rendered cannot be clicked.

\* what the provincial panel shows of locationError: the panel is unfolded, no
\* lookup is loading and no provincial data is stored
VisibleLocationError ==
    IF ~isProvincialCollapsed /\ ~loadingProvince /\ ~provincialData.loaded
    THEN locationError
    ELSE ""

\* a refresh button that is never disabled
ClickRefresh_NeverDisabled(supported) == FetchProvincialPrices(supported)

\* a click on the refresh button, disabled while loadingProvince
ClickRefresh(supported) ==
    /\ ~loadingProvince
    /\ FetchProvincialPrices(supported)

\* a click on the fold button, rendered once provincial data is stored
ClickCollapse ==
    /\ provincialData.loaded
    /\ ToggleProvincialCollapsed

\* a click on the advice button, disabled while loadingAi or hasErrors
ClickAdvice ==
    /\ ~loadingAi
    /\ ~HasErrors(errors)
    /\ FetchAiAdvice

\* every collaborator call in flight comes to one of its outcomes
GeolocationAnswers ==
    \/ \E i \in DOMAIN geo : PositionArrives(i)
    \/ \E i \in DOMAIN geo, code \in GeoErrorCodes : GeoError(i, code)

LookupAnswers ==
    \/ \E i \in DOMAIN geo : LookupFails(i)
    \/ \E i \in DOMAIN geo, parsed \in LookupResponses : LookupSucceeds(i, parsed)

AdviceAnswers ==
    \/ \E text \in AdviceResponses : AiAdviceArrives(text)
    \/ AiAdviceFails

NextCollab ==
    \/ \E supported \in BOOLEAN : ClickRefresh(supported)
    \/ ClickCollapse
    \/ ClickAdvice
    \/ GeolocationAnswers
    \/ LookupAnswers
    \/ AdviceAnswers

SpecCollab == Init /\ [][NextCollab]_vars

\* the same, with every promise and every getCurrentPosition call settling
FairCollab ==
    /\ SpecCollab
    /\ WF_vars(GeolocationAnswers)
    /\ WF_vars(LookupAnswers)
    /\ WF_vars(AdviceAnswers)

----------------------------------------------------------------------------
(* validate as a function of its arguments and of the record of its render *)

ValidateValues ==
    {NaN, 0 - Scale, 0, 1, 2 * Scale - 1, 2 * Scale, 2 * Scale + 1, 3 * Scale}

ValidateOnRoadPrices == {0, 16990, 2 * Scale}

ValidateInputs ==
    {[fn |-> "validate", field |-> f, value |-> v,
      record |-> [InitialData EXCEPT !.priceOnRoad = p]] :
        f \in Fields, v \in ValidateValues, p \in ValidateOnRoadPrices}

\* validate(field, value): the message is stored in the errors and returned
CallValidate ==
    /\ input.fn = "validate"
    /\ result.fn = "none"
    /\ LET error == Validate(input.field, input.value, input.record)
       IN  /\ errors' = [errors EXCEPT ![input.field] = error]
           /\ result' = [fn |-> "validate", out |-> error]
    /\ UNCHANGED <<data, widget, collab, input>>

InitValidate ==
    /\ Mounted
    /\ presses = 0
    /\ edits = 0
    /\ input \in ValidateInputs
    /\ result = [fn |-> "none"]

NextValidate == CallValidate

SpecValidate == InitValidate /\ [][NextValidate]_vars


----------------------------------------------------------------------------
(* Numbers.  A natural number of any size is the sequence of its digits in    *)
(* base 2^15, least significant first and without leading zero digits; <<>>  *)
(* is 0.  A JavaScript number is the IEEE 754 double built from such a       *)
(* natural, and every operation rounds to the nearest double, ties to even.  *)

Abs(v) == IF v < 0 THEN 0 - v ELSE v

LimbBits == 15
Base == 32768

RECURSIVE Pow2(_)
Pow2(k) == IF k = 0 THEN 1 ELSE 2 * Pow2(k - 1)

RECURSIVE LTrim(_)
LTrim(a) ==
    IF a # <<>> /\ a[Len(a)] = 0 THEN LTrim(SubSeq(a, 1, Len(a) - 1)) ELSE a

Limb(a, i) == IF i <= Len(a) THEN a[i] ELSE 0

RECURSIVE ToLimbs(_)
ToLimbs(n) == IF n = 0 THEN <<>> ELSE <<n % Base>> \o ToLimbs(n \div Base)

\* the value of a, for a below 2^30
ToInt(a) == Limb(a, 1) + Base * Limb(a, 2)

RECURSIVE LAddFrom(_, _, _, _)
LAddFrom(a, b, i, c) ==
    IF i > Len(a) /\ i > Len(b) THEN (IF c > 0 THEN <<c>> ELSE <<>>)
    ELSE <<(Limb(a, i) + Limb(b, i) + c) % Base>>
         \o LAddFrom(a, b, i + 1, (Limb(a, i) + Limb(b, i) + c) \div Base)

LAdd(a, b) == LAddFrom(a, b, 1, 0)

\* a - b for a >= b
RECURSIVE LSubFrom(_, _, _, _)
LSubFrom(a, b, i, c) ==
    IF i > Len(a) THEN <<>>
    ELSE <<(a[i] - Limb(b, i) - c + Base) % Base>>
         \o LSubFrom(a, b, i + 1, IF a[i] - Limb(b, i) - c < 0 THEN 1 ELSE 0)

LSub(a, b) == LTrim(LSubFrom(a, b, 1, 0))

RECURSIVE LLessFrom(_, _, _)
LLessFrom(a, b, i) ==
    IF i = 0 THEN FALSE
    ELSE IF a[i] # b[i] THEN a[i] < b[i]
    ELSE LLessFrom(a, b, i - 1)

LLess(a, b) ==
    IF Len(a) # Len(b) THEN Len(a) < Len(b) ELSE LLessFrom(a, b, Len(a))

\* a * k + c for 0 <= k < 2^15
RECURSIVE LMulSmallFrom(_, _, _, _)
LMulSmallFrom(a, k, i, c) ==
    IF i > Len(a) THEN (IF c > 0 THEN <<c>> ELSE <<>>)
    ELSE <<(a[i] * k + c) % Base>>
         \o LMulSmallFrom(a, k, i + 1, (a[i] * k + c) \div Base)

LMulSmall(a, k) == IF k = 0 THEN <<>> ELSE LMulSmallFrom(a, k, 1, 0)

LShiftLimbs(a, n) == IF a = <<>> THEN <<>> ELSE [i \in 1..n |-> 0] \o a

RECURSIVE LMulFrom(_, _, _)
LMulFrom(a, b, i) ==
    IF i > Len(b) THEN <<>>
    ELSE LAdd(LShiftLimbs(LMulSmall(a, b[i]), i - 1), LMulFrom(a, b, i + 1))

LMul(a, b) == LMulFrom(a, b, 1)

\* the quotient of a by k, for 0 < k < 2^15, from digit i down with remainder r
RECURSIVE LDivSmallFrom(_, _, _, _)
LDivSmallFrom(a, k, i, r) ==
    IF i = 0 THEN <<>>
    ELSE LDivSmallFrom(a, k, i - 1, (r * Base + a[i]) % k)
         \o <<(r * Base + a[i]) \div k>>

LDivSmall(a, k) == LTrim(LDivSmallFrom(a, k, Len(a), 0))

\* the remainder of a by k, for 0 < k < 2^15
RECURSIVE LModSmallFrom(_, _, _, _)
LModSmallFrom(a, k, i, r) ==
    IF i = 0 THEN r ELSE LModSmallFrom(a, k, i - 1, (r * Base + a[i]) % k)

LModSmall(a, k) == LModSmallFrom(a, k, Len(a), 0)

\* a * 2^n and the integer part of a / 2^n
LShl(a, n) == LShiftLimbs(LMulSmall(a, Pow2(n % LimbBits)), n \div LimbBits)

LShr(a, n) ==
    IF n \div LimbBits >= Len(a) THEN <<>>
    ELSE LDivSmall(SubSeq(a, n \div LimbBits + 1, Len(a)), Pow2(n % LimbBits))

RECURSIVE SmallBitLen(_)
SmallBitLen(n) == IF n = 0 THEN 0 ELSE 1 + SmallBitLen(n \div 2)

BitLen(a) ==
    IF a = <<>> THEN 0 ELSE LimbBits * (Len(a) - 1) + SmallBitLen(a[Len(a)])

\* one digit of a long division: the quotient and remainder of r * 2^j + (the
\* low j bits of w) by d, for r < d, with q the bits of the quotient so far
RECURSIVE DigitDiv(_, _, _, _, _)
DigitDiv(r, w, d, j, q) ==
    IF j = 0 THEN [q |-> q, r |-> r]
    ELSE LET r2 == LAdd(LMulSmall(r, 2),
                        IF (w \div Pow2(j - 1)) % 2 = 1 THEN <<1>> ELSE <<>>)
         IN  IF LLess(r2, d)
             THEN DigitDiv(r2, w, d, j - 1, 2 * q)
             ELSE DigitDiv(LSub(r2, d), w, d, j - 1, 2 * q + 1)

\* long division of the digits i..1 of a by d, with r the remainder so far:
\* the digits of the quotient, the most significant one first
RECURSIVE LDivFrom(_, _, _, _)
LDivFrom(a, d, i, r) ==
    IF i = 0 THEN [q |-> <<>>, r |-> r]
    ELSE LET digit == DigitDiv(r, a[i], d, LimbBits, 0)
             high  == <<digit.q>>
             low   == LDivFrom(a, d, i - 1, digit.r)
         IN  [q |-> high \o low.q, r |-> low.r]

Reverse(s) == [i \in 1..Len(s) |-> s[Len(s) + 1 - i]]

\* quotient and remainder of a by d, d > 0
LDivMod(a, d) ==
    IF Len(d) = 1
    THEN [q |-> LDivSmall(a, d[1]), r |-> ToLimbs(LModSmall(a, d[1]))]
    ELSE LET qr == LDivFrom(a, d, Len(a), <<>>)
         IN  [q |-> LTrim(Reverse(qr.q)), r |-> qr.r]

\* A JavaScript number (IEEE 754 binary64) is [k, s, m, e]: not-a-number, an
\* infinity of sign s, or the finite s * m * 2^e, where m is 0 (s = -1: the
\* negative zero) or has exactly 53 bits.  Subnormals and overflow are out of
\* the range of the values used.
Precision == 53

JsNaN == [k |-> "nan", s |-> 1, m |-> <<>>, e |-> 0]

JsInf(s) == [k |-> "inf", s |-> s, m |-> <<>>, e |-> 0]

JsZero(s) == [k |-> "fin", s |-> s, m |-> <<>>, e |-> 0]

\* the number nearest to s * (n + f) * 2^e, ties to even, where 0 <= f < 1
\* and f > 0 iff `inexact`
RoundToDouble(s, n, e, inexact) ==
    LET len == BitLen(n)
        cut == len - Precision
    IN  IF len = 0 THEN JsZero(s)
        ELSE IF cut <= 0
        THEN [k |-> "fin", s |-> s, m |-> LShl(n, 0 - cut), e |-> e + cut]
        ELSE LET top  == LShr(n, cut)
                 rest == LSub(n, LShl(top, cut))
                 half == LShl(<<1>>, cut - 1)
                 up   == \/ LLess(half, rest)
                         \/ rest = half /\ (inexact \/ top[1] % 2 = 1)
                 r    == IF up THEN LAdd(top, <<1>>) ELSE top
             IN  IF BitLen(r) > Precision
                 THEN [k |-> "fin", s |-> s, m |-> LShr(r, 1), e |-> e + cut + 1]
                 ELSE [k |-> "fin", s |-> s, m |-> r, e |-> e + cut]

\* the number nearest to s * (n / d) * 2^e, for naturals n and d > 0
RoundRatio(s, n, d, e) ==
    LET shift == IF BitLen(n) >= Precision + 3 + BitLen(d) THEN 0
                 ELSE Precision + 3 + BitLen(d) - BitLen(n)
        qr    == LDivMod(LShl(n, shift), d)
    IN  RoundToDouble(s, qr.q, e - shift, qr.r # <<>>)

\* a field of FuelData, held in units of 1/10000: the number the text parses to
FromUnits(v) == RoundRatio(IF v < 0 THEN -1 ELSE 1, ToLimbs(Abs(v)), ToLimbs(Scale), 0)

\* a + b for finite a and b
JsAdd(a, b) ==
    IF a.m = <<>> /\ b.m = <<>> THEN JsZero(IF a.s = -1 /\ b.s = -1 THEN -1 ELSE 1)
    ELSE IF a.m = <<>> THEN b
    ELSE IF b.m = <<>> THEN a
    ELSE LET e  == IF a.e <= b.e THEN a.e ELSE b.e
             am == LShl(a.m, a.e - e)
             bm == LShl(b.m, b.e - e)
         IN  IF a.s = b.s THEN RoundToDouble(a.s, LAdd(am, bm), e, FALSE)
             ELSE IF am = bm THEN JsZero(1)
             ELSE IF LLess(am, bm) THEN RoundToDouble(b.s, LSub(bm, am), e, FALSE)
             ELSE RoundToDouble(a.s, LSub(am, bm), e, FALSE)

\* a - b for finite a and b
JsSub(a, b) == JsAdd(a, [b EXCEPT !.s = 0 - b.s])

\* a * b
JsMul(a, b) ==
    IF a.k = "nan" \/ b.k = "nan" THEN JsNaN
    ELSE IF a.k = "inf" \/ b.k = "inf"
    THEN (IF (a.k = "fin" /\ a.m = <<>>) \/ (b.k = "fin" /\ b.m = <<>>)
          THEN JsNaN ELSE JsInf(a.s * b.s))
    ELSE RoundToDouble(a.s * b.s, LMul(a.m, b.m), a.e + b.e, FALSE)

\* a / b
JsDiv(a, b) ==
    IF a.k = "nan" \/ b.k = "nan" THEN JsNaN
    ELSE IF a.k = "inf" THEN (IF b.k = "inf" THEN JsNaN ELSE JsInf(a.s * b.s))
    ELSE IF b.k = "inf" THEN JsZero(a.s * b.s)
    ELSE IF b.m = <<>> THEN (IF a.m = <<>> THEN JsNaN ELSE JsInf(a.s * b.s))
    ELSE RoundRatio(a.s * b.s, a.m, b.m, a.e - b.e)

\* Math.max(0, a)
JsMax0(a) ==
    IF a.k = "nan" THEN JsNaN
    ELSE IF a.s = 1 /\ (a.k = "inf" \/ a.m # <<>>) THEN a
    ELSE JsZero(1)

(* calculateSavings *)

\* calculateSavings that forgets to halve the round trip
CalculateSavings_NoHalving(d) ==
    LET savingsEuro == JsMul(JsSub(FromUnits(d.priceOnRoad), FromUnits(d.priceOffRoad)),
                             FromUnits(d.litersToRefuel))
        costPerKm   == JsDiv(FromUnits(d.priceOffRoad), FromUnits(d.consumptionKmL))
        extraKms    == JsDiv(savingsEuro, costPerKm)
    IN  [savingsEuro |-> JsMax0(savingsEuro),
         extraKms |-> JsMax0(extraKms),
         maxOneWayDistance |-> JsMax0(extraKms),
         costPerKm |-> costPerKm]

\* calculateSavings that divides the saving by the price per litre
CalculateSavings_CostPerLiter(d) ==
    LET savingsEuro == JsMul(JsSub(FromUnits(d.priceOnRoad), FromUnits(d.priceOffRoad)),
                             FromUnits(d.litersToRefuel))
        costPerKm   == JsDiv(FromUnits(d.priceOffRoad), FromUnits(d.consumptionKmL))
        extraKms    == JsDiv(savingsEuro, FromUnits(d.priceOffRoad))
        maxOneWayDistance == JsDiv(extraKms, FromUnits(2 * Scale))
    IN  [savingsEuro |-> JsMax0(savingsEuro),
         extraKms |-> JsMax0(extraKms),
         maxOneWayDistance |-> JsMax0(maxOneWayDistance),
         costPerKm |-> costPerKm]

\* calculateSavings(data)
CalculateSavings(d) ==
    LET savingsEuro == JsMul(JsSub(FromUnits(d.priceOnRoad), FromUnits(d.priceOffRoad)),
                             FromUnits(d.litersToRefuel))
        costPerKm   == JsDiv(FromUnits(d.priceOffRoad), FromUnits(d.consumptionKmL))
        extraKms    == JsDiv(savingsEuro, costPerKm)
        maxOneWayDistance == JsDiv(extraKms, FromUnits(2 * Scale))
    IN  [savingsEuro |-> JsMax0(savingsEuro),
         extraKms |-> JsMax0(extraKms),
         maxOneWayDistance |-> JsMax0(maxOneWayDistance),
         costPerKm |-> costPerKm]

(* chartData *)

\* |a| < |b|, neither a NaN
MagLess(a, b) ==
    IF a.k = "inf" THEN FALSE
    ELSE IF b.k = "inf" THEN TRUE
    ELSE IF b.m = <<>> THEN FALSE
    ELSE IF a.m = <<>> THEN TRUE
    ELSE a.e < b.e \/ (a.e = b.e /\ LLess(a.m, b.m))

\* -1, 0 or 1, the two zeros alike
Signum(a) == IF a.k = "fin" /\ a.m = <<>> THEN 0 ELSE a.s

\* a < b
JsLess(a, b) ==
    /\ a.k # "nan"
    /\ b.k # "nan"
    /\ IF Signum(a) # Signum(b) THEN Signum(a) < Signum(b)
       ELSE IF Signum(a) = 1 THEN MagLess(a, b)
       ELSE IF Signum(a) = -1 THEN MagLess(b, a)
       ELSE FALSE

\* a <= b
JsLessEq(a, b) == a.k # "nan" /\ b.k # "nan" /\ ~JsLess(b, a)

\* Math.max(a, b)
JsMax(a, b) ==
    IF a.k = "nan" \/ b.k = "nan" THEN JsNaN
    ELSE IF JsLess(a, b) THEN b
    ELSE IF JsLess(b, a) THEN a
    ELSE IF a.s = 1 THEN a ELSE b

\* parseFloat(a.toFixed(2)) for a finite a below 10^7 in magnitude, in
\* hundredths: the integer n with n / 100 nearest to a, the larger in
\* magnitude of two equally near
ToFixed2(a) ==
    IF a.m = <<>> THEN 0
    ELSE LET twice == IF a.e >= 0 THEN LShl(LMulSmall(a.m, 200), a.e)
                      ELSE LShr(LMulSmall(a.m, 200), 0 - a.e)
         IN  a.s * ((ToInt(twice) + 1) \div 2)

\* the iterations of the loop of chartData are evaluated SegmentLen at a time
SegmentLen == 10

\* up to n iterations of the loop of chartData from the distance d on: the
\* points pushed and the distance reached
RECURSIVE ChartSegment(_, _, _, _, _)
ChartSegment(d, n, maxRange, stepVal, breakEvenTotal) ==
    IF n = 0 \/ ~JsLessEq(d, maxRange) THEN [d |-> d, points |-> <<>>]
    ELSE LET netKmGain == JsSub(breakEvenTotal, d)
             point == [totalDist |-> ToFixed2(d), netGain |-> ToFixed2(netKmGain)]
             rest  == ChartSegment(JsAdd(d, stepVal), n - 1, maxRange, stepVal,
                                   breakEvenTotal)
         IN  [d |-> rest.d, points |-> <<point>> \o rest.points]

\* the loop of chartData from the distance d on
RECURSIVE ChartLoop(_, _, _, _)
ChartLoop(d, maxRange, stepVal, breakEvenTotal) ==
    IF ~JsLessEq(d, maxRange) THEN <<>>
    ELSE LET segment == ChartSegment(d, SegmentLen, maxRange, stepVal, breakEvenTotal)
         IN  segment.points \o ChartLoop(segment.d, maxRange, stepVal, breakEvenTotal)

\* chartData
ChartData(hasErrors, results) ==
    LET breakEvenTotal == results.extraKms
        maxRange == JsMax(JsMul(breakEvenTotal, FromUnits(13 * 1000)), FromUnits(5 * Scale))
        stepVal  == JsDiv(maxRange, FromUnits(100 * Scale))
    IN  IF hasErrors THEN [terminates |-> TRUE, points |-> <<>>]
        ELSE IF maxRange.k = "inf" THEN [terminates |-> FALSE, points |-> <<>>]
        ELSE [terminates |-> TRUE,
              points |-> ChartLoop(JsZero(1), maxRange, stepVal, breakEvenTotal)]

(* calculateSavings as a function of its argument *)

CalcPrices == {0 - Scale, 0, 15990, 16990, 2 * Scale}

CalcLiters == {0 - Scale, 0, 25 * Scale}

CalcConsumptions == {0 - Scale, 0, 18 * Scale}

CalcInputs ==
    {[fn |-> "calculateSavings",
      record |-> [priceOnRoad |-> a, priceOffRoad |-> b,
                  litersToRefuel |-> l, consumptionKmL |-> c]] :
        a \in CalcPrices, b \in CalcPrices, l \in CalcLiters, c \in CalcConsumptions}

CallCalculateSavings ==
    /\ input.fn = "calculateSavings"
    /\ result.fn = "none"
    /\ result' = [fn |-> "calculateSavings", out |-> CalculateSavings(input.record)]
    /\ UNCHANGED <<data, errors, widget, collab, input>>

InitCalc ==
    /\ Mounted
    /\ presses = 0
    /\ edits = 0
    /\ input \in CalcInputs
    /\ result = [fn |-> "none"]

NextCalc == CallCalculateSavings

SpecCalc == InitCalc /\ [][NextCalc]_vars

(* chartData as a function of hasErrors and of the record behind results, *)
(* with the iterations of its loop as steps                                *)

\* priceOnRoad and priceOffRoad: the default pair, wider and narrower
\* differences, equal prices, the inverted order and the pair that
\* applyProvincialPrice("0") leaves
ChartPrices ==
    {<<16990, 15990>>, <<16990, 15000>>, <<2 * Scale, 15990>>, <<16990, 16990>>,
     <<15990, 16990>>, <<0, 0>>}

ChartLiters == {25 * Scale, 40 * Scale}

\* hasErrors and results, the two values the memo depends on, with the record
\* results was computed from
ChartInputs ==
    {[fn |-> "chartData", hasErrors |-> h, record |-> r, results |-> CalculateSavings(r)] :
        h \in BOOLEAN,
        r \in {[InitialData EXCEPT !.priceOnRoad = p[1], !.priceOffRoad = p[2],
                                   !.litersToRefuel = l] :
                  p \in ChartPrices, l \in ChartLiters}}

\* the memo callback runs up to its loop
CallChartData ==
    /\ input.fn = "chartData"
    /\ result.fn = "none"
    /\ result' =
         LET maxRange == JsMax(JsMul(input.results.extraKms, FromUnits(13 * 1000)),
                               FromUnits(5 * Scale))
         IN  [fn |-> "chartData",
              breakEvenTotal |-> input.results.extraKms,
              maxRange |-> maxRange,
              stepVal |-> JsDiv(maxRange, FromUnits(100 * Scale)),
              d |-> JsZero(1),
              points |-> <<>>,
              done |-> input.hasErrors]
    /\ UNCHANGED <<data, errors, widget, collab, input>>

\* one iteration of the loop
ChartStep ==
    /\ result.fn = "chartData"
    /\ ~result.done
    /\ JsLessEq(result.d, result.maxRange)
    /\ result' =
         LET segment == ChartSegment(result.d, 1, result.maxRange, result.stepVal,
                                     result.breakEvenTotal)
         IN  [result EXCEPT !.d = segment.d, !.points = @ \o segment.points]
    /\ UNCHANGED <<data, errors, widget, collab, input>>

\* the loop ends and the points are returned
ChartReturn ==
    /\ result.fn = "chartData"
    /\ ~result.done
    /\ ~JsLessEq(result.d, result.maxRange)
    /\ result' = [result EXCEPT !.done = TRUE]
    /\ UNCHANGED <<data, errors, widget, collab, input>>

InitChart ==
    /\ Mounted
    /\ presses = 0
    /\ edits = 0
    /\ input \in ChartInputs
    /\ result = [fn |-> "none"]

NextChart ==
    \/ CallChartData
    \/ ChartStep
    \/ ChartReturn

SpecChart == InitChart /\ [][NextChart]_vars

----------------------------------------------------------------------------
(* Properties *)

\* C1: once pointerup or pointerleave is handled, whatever the phase of the
\* press, every timer scheduled for it is revoked, both timer handles are
\* null, and no delta is emitted until the next press-start.
C1_ReleaseRevokesTimers ==
    /\ [](~held => (timers = {} /\ timerRef = Null /\ initialDelayRef = Null))
    /\ [][(~held /\ ~held') => emitted' = emitted]_vars

\* a press released in the repeating phase
C1_Witness == ~held /\ mounted /\ emitted >= 2 /\ timers = {}

\* C2: at most one timer of the control is pending in every reachable state,
\* also when a press-start arrives while a press is active.
C2_AtMostOneTimer == Cardinality(timers) <= 1

\* a second press-start arrived while a timer was pending
C2_Witness == restarted /\ held /\ Cardinality(timers) = 1

\* C3: after an edit of priceOnRoad the stored error of priceOffRoad is the
\* validation of the current priceOffRoad against the new priceOnRoad.
C3_OffRoadValidatedAgainstNewOnRoad ==
    lastEdit = "priceOnRoad" =>
        errors["priceOffRoad"] = Validate("priceOffRoad", data.priceOffRoad, data)

\* C4: when no field carries an error, all four fields are > 0 and
\* priceOffRoad < priceOnRoad.
C4_NoErrorMeansValidRecord ==
    ~HasErrors(errors) =>
        /\ \A f \in Fields : data[f] > 0
        /\ data.priceOffRoad < data.priceOnRoad

\* C5: every delta reported by the stepper is computed from the owner's
\* value at the moment of emission.
C5_DeltaFromLatestValue ==
    emitted > 0 =>
        lastEmit.value = Max(0, ToFixed3(lastEmit.owner + lastEmit.delta))

\* C6: while fewer than 10 repeats were emitted, a press held for T ms has
\* emitted 1 delta if T < 400 and 1 + floor((T - 400) / 80) deltas otherwise
\* (a timer due at T counts as fired at T).
C6_DeltasOfHold ==
    (held /\ emitted <= 10 /\ \A t \in timers : t.due > now) =>
        emitted = IF now < 400 THEN 1 ELSE 1 + ((now - 400) \div 80)

\* held for 1000 ms: 8 deltas
C6_Witness == held /\ now = 1000 /\ emitted = 8 /\ \A t \in timers : t.due > now

\* C7: the delay scheduled after the k-th repeat is 80 ms for k < 10, 40 ms
\* for 10 <= k < 30 and 15 ms from k = 30 on.
C7_DelayAfterRepeat ==
    \A t \in timers :
        (t.kind = "run" /\ t.count >= 1) =>
            t.delay = IF t.count < 10 THEN 80
                      ELSE IF t.count < 30 THEN 40
                      ELSE 15

\* the repeat after the 31st is scheduled 15 ms ahead
C7_Witness == \E t \in timers : t.kind = "run" /\ t.count >= 31 /\ t.delay = 15

\* C8: every value the stepper reports is >= 0 and a multiple of 0.001; it is
\* 0 when current + delta is not positive, and the multiple of 0.001 nearest
\* to current + delta otherwise.
C8_ReportedValueFloorAndRounding ==
    emitted > 0 =>
        LET sum == lastEmit.base + lastEmit.delta
        IN  /\ lastEmit.value >= 0
            /\ lastEmit.value % Milli = 0
            /\ sum <= 0 => lastEmit.value = 0
            /\ sum > 0 => /\ 2 * (lastEmit.value - sum) <= Milli
                          /\ 2 * (sum - lastEmit.value) <= Milli

\* a decrement below zero reported 0
C8_Witness ==
    /\ emitted > 0
    /\ lastEmit.delta < 0
    /\ lastEmit.base + lastEmit.delta < 0
    /\ lastEmit.value = 0

\* C9 as stated: a context-menu trigger during a press cancels the timers
\* and no delta follows it.
C9_ContextMenuCancels ==
    ctxAt >= 0 => (timers = {} /\ emitted = ctxAt)

\* C9 as amended: a context-menu trigger during a press cancels nothing; the
\* press stays armed or repeating, with its one timer pending and its handle
\* held by a ref, until pointerup or pointerleave.
C9_ContextMenuKeepsPress ==
    ctxAt >= 0 =>
        /\ held
        /\ Cardinality(timers) = 1
        /\ \A t \in timers : t.id \in {timerRef, initialDelayRef}

\* a delta emitted after the context-menu event of the same press
C9_Witness == ctxAt >= 0 /\ emitted > ctxAt

\* C10: no timer of the control is pending once it is unmounted.
C10_NoTimerAfterUnmount == ~mounted => timers = {}

\* C11: validate(field, value) against a record returns the invalid-value
\* message when value is not a number, else the must-be-positive message when
\* value <= 0, else the must-be-lower message when field is priceOffRoad and
\* value >= record.priceOnRoad, else the empty message; no field but
\* priceOffRoad gets the must-be-lower message.
C11_ValidateRules ==
    result.fn = "validate" =>
        /\ result.out =
              IF IsNaN(input.value) THEN ErrInvalid
              ELSE IF input.value <= 0 THEN ErrPositive
              ELSE IF input.field = "priceOffRoad"
                      /\ input.value >= input.record.priceOnRoad THEN ErrLower
              ELSE ""
        /\ result.out = ErrLower => input.field = "priceOffRoad"
        /\ errors[input.field] = result.out

\* priceOffRoad = 2.0 validated against priceOnRoad = 2.0
C11_Witness ==
    /\ result.fn = "validate"
    /\ input.field = "priceOffRoad"
    /\ input.value = 2 * Scale
    /\ input.record.priceOnRoad = 2 * Scale
    /\ result.out = ErrLower

\* >= 0, an infinity included
NonNegative(x) == x.k # "nan" /\ (x.s = 1 \/ (x.k = "fin" /\ x.m = <<>>))

IsZero(x) == x.k = "fin" /\ x.m = <<>>

\* C12: for priceOnRoad > priceOffRoad > 0, litersToRefuel > 0 and
\* consumptionKmL > 0, calculateSavings returns savingsEuro >= 0,
\* extraKms >= 0, maxOneWayDistance >= 0, and maxOneWayDistance is exactly
\* extraKms / 2.
C12_ValidInputsNonNegative ==
    LET r   == input.record
        out == result.out
    IN  (/\ result.fn = "calculateSavings"
         /\ r.priceOnRoad > r.priceOffRoad
         /\ r.priceOffRoad > 0
         /\ r.litersToRefuel > 0
         /\ r.consumptionKmL > 0) =>
            /\ NonNegative(out.savingsEuro)
            /\ NonNegative(out.extraKms)
            /\ NonNegative(out.maxOneWayDistance)
            /\ out.extraKms.k = "fin"
            /\ out.maxOneWayDistance.k = "fin"
            /\ out.maxOneWayDistance.m = out.extraKms.m
            /\ out.extraKms.m # <<>> => out.maxOneWayDistance.e = out.extraKms.e - 1

\* the record of the end-to-end example: savingsEuro 2.50, extraKms 28.14
\* and maxOneWayDistance 14.07 to two decimals
C12_Witness ==
    /\ result.fn = "calculateSavings"
    /\ input.record = InitialData
    /\ ToFixed2(result.out.savingsEuro) = 250
    /\ ToFixed2(result.out.extraKms) = 2814
    /\ ToFixed2(result.out.maxOneWayDistance) = 1407

\* C13: for priceOnRoad <= priceOffRoad, whatever the other two fields,
\* calculateSavings returns savingsEuro = 0 and extraKms = 0.
C13_ViolatedOrderingClampsToZero ==
    (/\ result.fn = "calculateSavings"
     /\ input.record.priceOnRoad <= input.record.priceOffRoad) =>
        /\ IsZero(result.out.savingsEuro)
        /\ IsZero(result.out.extraKms)

\* the formulas of the specification, extraKms from the clamped savingsEuro
C14_Reference(d) ==
    LET savingsEuro == JsMax0(JsMul(JsSub(FromUnits(d.priceOnRoad),
                                          FromUnits(d.priceOffRoad)),
                                    FromUnits(d.litersToRefuel)))
        costPerKm   == JsDiv(FromUnits(d.priceOffRoad), FromUnits(d.consumptionKmL))
        extraKms    == JsMax0(JsDiv(savingsEuro, costPerKm))
    IN  [savingsEuro |-> savingsEuro,
         extraKms |-> extraKms,
         maxOneWayDistance |-> JsMax0(JsDiv(extraKms, FromUnits(2 * Scale))),
         costPerKm |-> costPerKm]

\* C14: calculateSavings returns, for every record, what the reference
\* formulas give: savingsEuro = max(0, (priceOnRoad - priceOffRoad) *
\* litersToRefuel), costPerKm = priceOffRoad / consumptionKmL, extraKms =
\* max(0, savingsEuro / costPerKm) from that clamped savingsEuro, and
\* maxOneWayDistance = max(0, extraKms / 2).
C14_AgreesWithReference ==
    result.fn = "calculateSavings" => result.out = C14_Reference(input.record)

\* C15: when no field is in error, chartData terminates, after no more than
\* 101 iterations, with 101 points, the first with totalDist = 0 and the
\* last with totalDist at least 1.3 * extraKms (to the hundredth that
\* toFixed(2) keeps).
C15_ChartHas101Points ==
    (result.fn = "chartData" /\ ~input.hasErrors) =>
        /\ Len(result.points) <= 101
        /\ result.done =>
              /\ Len(result.points) = 101
              /\ result.points[1].totalDist = 0
              /\ result.points[101].totalDist + 1
                     >= ToFixed2(JsMul(result.breakEvenTotal, FromUnits(13 * 1000)))

\* C16: in every state where some field carries a validation error the chart
\* series is empty, and a call of fetchAiAdvice in such a state issues no
\* collaborator call and changes nothing; an edit is written to the record
\* even when it leaves a field in error.
C16_ErrorsBlockDisplayNotEdits ==
    /\ [](HasErrors(errors) =>
             ChartData(HasErrors(errors), CalculateSavings(data)).points = <<>>)
    /\ [][(FetchAiAdvice /\ HasErrors(errors)) => UNCHANGED vars]_vars
    /\ [][\A f \in Fields, v \in OtherValues :
              (OnChangeOther(f, v) /\ HasErrors(errors')) => data'[f] = v]_vars
    /\ [][\A text \in AppTexts :
              (/\ HandleInputChange(text)
               /\ MatchesPattern(text)
               /\ ~IsNaN(ParseFloat(ReplaceFirst(text, ",", ".")))
               /\ HasErrors(errors'))
                  => data'[ctl] = ParseFloat(ReplaceFirst(text, ",", "."))]_vars

\* a field is in error after an edit that was written to the record, and
\* fetchAiAdvice can still be called
C16_Witness ==
    /\ HasErrors(errors)
    /\ data # InitialData
    /\ requests < MaxRequests
    /\ aiPending = 0

C18_UnparseableTextReportsZero ==
    [][\A text \in AppTexts :
          (/\ HandleInputChange(text)
           /\ MatchesPattern(text)
           /\ IsNaN(ParseFloat(ReplaceFirst(text, ",", "."))))
              => data'[ctl] = 0]_vars

\* a text that matches the input pattern and does not parse to a number
Unparseable(text) ==
    MatchesPattern(text) /\ IsNaN(ParseFloat(ReplaceFirst(text, ",", ".")))

\* C19: after a pattern-matching but unparseable text is typed, the field
\* displays exactly that text once the owner's update is rendered and the
\* value effect has run, and such a text is replaced only by a further typed
\* text or by the canonical value on blur.
C19_RawTextKept ==
    /\ [][\A text \in AppTexts :
              (HandleInputChange(text) /\ Unparseable(text)) => inputValue' = text]_vars
    /\ [][(Unparseable(inputValue) /\ inputValue' # inputValue) =>
              \/ \E text \in AppTexts : HandleInputChange(text)
              \/ OnBlur]_vars

\* a collaborator fails: geolocation is not supported, getCurrentPosition
\* calls its error callback, the lookup throws or its response holds no
\* object, or the advisory call throws
CollaboratorFails ==
    \/ FetchProvincialPrices(FALSE)
    \/ \E i \in DOMAIN geo, code \in GeoErrorCodes : GeoError(i, code)
    \/ \E i \in DOMAIN geo : LookupFails(i)
    \/ AiAdviceFails

\* C20: a failure of a collaborator leaves FuelData and ValidationErrors, and
\* with them the CalculationResult computed from FuelData, unchanged, as well
\* as the input text and the provincial prices loaded before; the status and
\* advice strings and the loading flags are what changes (the call that
\* finds geolocation unsupported has unfolded the provincial panel first).
C20_FailureKeepsRecord ==
    [][CollaboratorFails =>
          /\ UNCHANGED <<data, errors, rendered, inputValue, valueRef, provincialData>>
          /\ ~FetchProvincialPrices(FALSE) => UNCHANGED isProvincialCollapsed
          /\ ~loadingProvince' \/ ~loadingAi'
          /\ locationError' # "" \/ aiAdvice' = ErrAdvice]_vars

\* the lookup and the advisory call have both failed after an edit
C20_Witness ==
    /\ locationError = ErrLookup
    /\ aiAdvice = ErrAdvice
    /\ ~loadingProvince
    /\ ~loadingAi
    /\ data # InitialData

\* C21: every failed province lookup leaves a failure status of its category on
\* the screen: "Permesso negato." for error code 1, "Timeout rilevamento." for
\* code 3, "Errore GPS." for other codes, the unsupported text when there is no
\* geolocation, the retrieval text when the price lookup throws; also when the
\* prices of an earlier lookup are still stored.
C21_FailureStatusVisible ==
    [][/\ \A i \in DOMAIN geo :
            /\ GeoError(i, 1) => VisibleLocationError' = ErrDenied
            /\ GeoError(i, 3) => VisibleLocationError' = ErrTimeout
            /\ GeoError(i, 2) => VisibleLocationError' = ErrGps
            /\ LookupFails(i) => VisibleLocationError' = ErrLookup
       /\ ClickRefresh(FALSE) => VisibleLocationError' = ErrUnsupported]_vars

\* x > 0, an infinity included
Positive(x) == x.k # "nan" /\ x.s = 1 /\ (x.k = "inf" \/ x.m # <<>>)

\* For finite a, b, c with c >= 0: |a * b - c| and c * 2^-53, both exact and
\* in units of one common power of two
ProductGap(a, b, c) ==
    LET pe      == a.e + b.e
        low     == Min(pe, c.e - Precision)
        product == LShl(LMul(a.m, b.m), pe - low)
        target  == LShl(c.m, c.e - low)
    IN  [diff |-> IF a.s * b.s = 1 \/ product = <<>>
                  THEN IF LLess(product, target) THEN LSub(target, product)
                       ELSE LSub(product, target)
                  ELSE LAdd(product, target),
         ulp  |-> LShl(c.m, c.e - Precision - low)]

\* C22 as stated: whenever the returned costPerKm is > 0, the returned values
\* satisfy extraKms * costPerKm = savingsEuro exactly, as rational numbers.
C22_ProductIsExact ==
    (result.fn = "calculateSavings" /\ Positive(result.out.costPerKm)) =>
        /\ result.out.costPerKm.k = "fin"
        /\ result.out.extraKms.k = "fin"
        /\ result.out.savingsEuro.k = "fin"
        /\ ProductGap(result.out.extraKms, result.out.costPerKm,
                      result.out.savingsEuro).diff = <<>>

\* a double of the normal range, 2^-1022 <= |x| < 2^1024: its 53-bit
\* significand has an exponent from -1074 to 971
InNormalRange(x) == x.k = "fin" /\ x.m # <<>> /\ x.e >= 0 - 1074 /\ x.e <= 971

\* C22, amended: whenever the returned costPerKm is > 0 and finite, the
\* returned savingsEuro is finite and the returned extraKms is in the normal
\* range of doubles (or savingsEuro is 0), extraKms * costPerKm differs from
\* savingsEuro by no more than savingsEuro * 2^-53, the rounding of the one
\* division that produced extraKms; in the clamped case both sides are 0.
C22_ProductWithinRounding ==
    LET out == result.out
    IN  (/\ result.fn = "calculateSavings"
         /\ Positive(out.costPerKm)
         /\ out.costPerKm.k = "fin"
         /\ out.extraKms.k = "fin"
         /\ out.savingsEuro.k = "fin"
         /\ IsZero(out.savingsEuro) \/ InNormalRange(out.extraKms)) =>
            LET gap == ProductGap(out.extraKms, out.costPerKm, out.savingsEuro)
            IN  /\ ~LLess(gap.ulp, gap.diff)
                /\ IsZero(out.savingsEuro) <=> IsZero(out.extraKms)

\* the record of the end-to-end example: the product is within rounding of
\* savingsEuro and not equal to it
C22_Witness ==
    /\ result.fn = "calculateSavings"
    /\ input.record = InitialData
    /\ Positive(result.out.costPerKm)
    /\ ProductGap(result.out.extraKms, result.out.costPerKm,
                  result.out.savingsEuro).diff # <<>>

\* every pending timer is due within the time that is observed
WithinHorizon == \A t \in timers : t.due <= MaxTime

\* C23: there is no maximum press duration.  While the press is neither
\* released nor cancelled a timer is always pending, and every emitted delta
\* is followed by another one, however long the press has lasted: the count
\* of emitted deltas, which a press only ever raises by one, goes on from
\* every even value to an odd one and from every odd value to an even one.
C23_HoldRepeatsForever ==
    /\ [](held => timers # {})
    /\ \A parity \in {0, 1} :
           (held /\ WithinHorizon /\ emitted % 2 = parity)
               ~> (~held \/ emitted % 2 = 1 - parity)

\* a press held past the second threshold, repeating at the fastest interval
C23_Witness ==
    /\ held
    /\ emitted > FastestAfter + 1
    /\ \E t \in timers : t.kind = "run" /\ t.count > FastestAfter /\ t.delay = FastestSpeed

\* the step max(0, round3(v + d)) applied n times to v
RECURSIVE StepTimes(_, _, _)
StepTimes(v, d, n) == IF n = 0 THEN v ELSE StepTimes(NextVal(v, d), d, n - 1)

\* C24: no stepper update is lost.  In a single press with no other edit,
\* after n emitted deltas the owner's value is the press-start value with the
\* step applied n times, also when two timer callbacks run before a re-render.
C24_NoUpdateLost ==
    emitted > 0 =>
        data[ctl] = StepTimes(InitialData[ctl], lastEmit.delta, emitted)

\* no number starts the characters of priceStr that are digits, commas or
\* dots: they do not begin with a digit, nor with a comma or dot and a digit
NoNumberIn(priceStr) ==
    LET kept == SelectSeq(priceStr, LAMBDA c : c \in PriceChars)
    IN  \/ kept = <<>>
        \/ /\ kept[1] \notin Digits
           /\ Len(kept) < 2 \/ kept[2] \notin Digits

\* C25: applyProvincialPrice with a string from which no number can be parsed,
\* once every character other than digits, comma and dot is stripped, leaves
\* FuelData and ValidationErrors unchanged.
C25_UnparseablePriceIgnored ==
    [][\A s \in PriceStrings :
          (ApplyProvincialPrice(s) /\ NoNumberIn(s)) =>
              /\ data' = data
              /\ errors' = errors]_vars

\* the state after a price string without a number was applied: an event is
\* counted, no value was reported, and text, record and errors are as before
C25_Witness ==
    /\ edits > 0
    /\ lastEdit = "none"
    /\ inputValue = FormatValue(InitialData[ctl])
    /\ data = InitialData
    /\ errors = NoErrors

\* C26: every started collaborator request eventually clears its loading
\* flag.  loadingProvince is false after geolocation is found unsupported,
\* after the geolocation error callback, and after the lookup succeeds or
\* throws; loadingAi is false after the advisory call resolves or rejects;
\* each flag that is set is cleared later; and while loadingProvince is true
\* no further province lookup is started.
C26_LoadingFlagsClear ==
    /\ loadingProvince ~> ~loadingProvince
    /\ loadingAi ~> ~loadingAi
    /\ [][/\ ClickRefresh(FALSE) => ~loadingProvince'
          /\ \A i \in DOMAIN geo :
                /\ (\E code \in GeoErrorCodes : GeoError(i, code)) => ~loadingProvince'
                /\ LookupFails(i) => ~loadingProvince'
                /\ (\E parsed \in LookupResponses : LookupSucceeds(i, parsed))
                      => ~loadingProvince'
          /\ (\E text \in AdviceResponses : AiAdviceArrives(text)) => ~loadingAi'
          /\ AiAdviceFails => ~loadingAi'
          /\ loadingProvince => Len(geo') <= Len(geo)]_vars

\* a lookup and an advisory call were made, both are over and both flags are
\* cleared
C26_Witness ==
    /\ provincialData.loaded
    /\ aiAdvice # <<>>
    /\ geo = <<>>
    /\ aiPending = 0
    /\ ~loadingProvince
    /\ ~loadingAi
====
